---- MODULE Spec2Model ----
(***************************************************************************)
(* KJPP job monitor (monitor_kjpp_jobs_telegram.py): one monitoring cycle  *)
(* (run_once) and its helpers, as a state machine.                         *)
(*                                                                         *)
(* Text is modelled at word level: a title or a URL is a sequence of       *)
(* words, a regular expression is evaluated over the words of the text,    *)
(* and a substring test is a test on the words that contain the substring. *)
(* The 24-hex-digit SHA-256 prefix of make_id is modelled by the string    *)
(* that is hashed (url + "|" + title); the digest is assumed to be         *)
(* collision free on the inputs of the model.                              *)
(***************************************************************************)
EXTENDS Naturals, Sequences, FiniteSets

(* ------------------------------ bounds -------------------------------- *)

\* number of consecutive runs of the script over the same working directory
MaxRuns == 2
\* at most MaxItems job items are extracted from the pages of one source
MaxItems == 2
\* at most MaxLinks links are found in the pagination block of one page
MaxLinks == 3
\* the greatest page number a pagination link is labelled with
MaxPageNum == 3

(* ------------------------- program constants -------------------------- *)

MAX_PAGES == 10
GENERIC_MAX_PAGES == 3
\* item["title"][:100]: 100 characters in the source, counted in words here
KEY_LEN == 4
INCLUDE_RELATED == TRUE
\* len(next_selectors)
NEXT_SELECTORS == 10

(* ------------------------------ helpers ------------------------------- *)

Range(s) == {s[n] : n \in DOMAIN s}

Min(a, b) == IF a < b THEN a ELSE b

\* s[:n]
Prefix(s, n) == SubSeq(s, 1, Min(n, Len(s)))

\* None / "" (both falsy in the source)
NoUrl == <<>>

EmptyMap == [u \in {} |-> 0]

(* ---------------------------- vocabulary ------------------------------ *)

\* str.lower() on one word
LowerTok(t) ==
    CASE t = "Facharzt" -> "facharzt"
      [] t = "Kinder-" -> "kinder-"
      [] t = "Jugendpsychiatrie" -> "jugendpsychiatrie"
      [] t = "Niederlassungsberatung" -> "niederlassungsberatung"
      [] t = "Pflegekraft" -> "pflegekraft"
      [] t = "KJPP" -> "kjpp"
      [] t = "Impressum" -> "impressum"
      [] OTHER -> t

Lower(s) == [n \in DOMAIN s |-> LowerTok(s[n])]

\* whole words matched by \bfacharzt\b, \boberarzt\b, ... (STRICT_KJPP_PATTERNS 1-6)
RoleWords == {"facharzt", "oberarzt", "assistenzarzt", "weiterbildungsassistent",
              "ärztin", "ärzti", "arzt"}
\* words that contain "kinder"
KinderWords == {"kinder", "kinder-"}
\* words that contain "jugendpsychiatr"
JugendpsychiatrWords == {"jugendpsychiatrie"}
\* words in which \b(w|weiterbildung) matches
WWords == {"(m/w/d)", "weiterbildung", "weiterbildungsassistent"}
\* words that contain arzt|ärztin|facharzt|oberarzt|assistenzarzt
ArztWords == {"arzt", "ärztin", "facharzt", "oberarzt", "assistenzarzt"}
\* words matched by "und-?"
UndWords == {"und", "und-"}
\* words that begin with "jugendpsychi" / "jugendpsychother"
JugendpsychWords == {"jugendpsychiatrie", "jugendpsychotherapie"}
\* words in which \bkjpp\b, \bkjp\b, jugendpsychiatr, kinderpsychiatr or
\* kinder-?jugend-?psych matches
KeywordWords == {"kjpp", "kjp", "jugendpsychiatrie", "kinderpsychiatrie",
                 "kinderjugendpsychiatrie"}

\* the sample hrefs and titles the modelled pages carry
H1 == <<"x.test", "jobs", "1">>
H2 == <<"x.test", "jobs", "2">>
T_FACH == <<"Facharzt", "Kinder-", "und", "Jugendpsychiatrie">>
T_NOISE == <<"Facharzt", "Kinder-", "und", "Jugendpsychiatrie", "Niederlassungsberatung">>
T_REL == <<"Pflegekraft", "KJPP">>
T_OTHER == <<"Impressum", "und", "Stellen">>

Cand(h, t) == [href |-> h, title |-> t]

Cands == {Cand(H1, T_FACH), Cand(H1, T_NOISE), Cand(H1, T_REL), Cand(H2, T_OTHER)}

\* what one fetched page can yield as extracted job items, in page order
PageItemLists == UNION {[1..n -> Cands] : n \in 0..MaxItems}

\* the source URLs of the modelled URL lists
KV_URL == <<"kvboerse", "suche">>
GEN_URL == <<"klinik", "karriere">>
CONTENT_URL == <<"klinik", "aktuelles">>

\* job_urls.txt: lines; <<>> is a blank line, a line starting with "#" a comment
UrlFiles == {<<KV_URL>>,
             <<<<"#", "off">>, GEN_URL, <<>>, CONTENT_URL>>}

\* the pages of one paginated site: the entry URL and a second page
PagesOf(url) == {url, Append(url, "page2")}

(* --------------------------- pure functions --------------------------- *)

\* re.search over the words of text: role word .* kinder .* jugendpsychiatr
StrictRolePattern(text) ==
    \E a, b, c \in DOMAIN text :
        /\ a < b /\ b < c
        /\ text[a] \in RoleWords
        /\ text[b] \in KinderWords
        /\ text[c] \in JugendpsychiatrWords

\* \b(w|weiterbildung).*(kinder.*jugendpsychiatr)
StrictWPattern(text) ==
    \E a, b, c \in DOMAIN text :
        /\ a < b /\ b < c
        /\ text[a] \in WWords
        /\ text[b] \in KinderWords
        /\ text[c] \in JugendpsychiatrWords

\* \bkinder-?\s*und-?\s*jugendpsychiatr.*(arzt|ärztin|facharzt|oberarzt|assistenzarzt)
StrictTrailingPattern(text) ==
    \E a, d \in DOMAIN text :
        /\ a + 2 < d
        /\ text[a] \in KinderWords
        /\ text[a + 1] \in UndWords
        /\ text[a + 2] \in JugendpsychiatrWords
        /\ text[d] \in ArztWords

STRICT_KJPP_RE(text) ==
    StrictRolePattern(text) \/ StrictWPattern(text) \/ StrictTrailingPattern(text)

KEYWORDS_RE(text) ==
    \/ \E a \in DOMAIN text :
          /\ a + 2 \in DOMAIN text
          /\ text[a] \in KinderWords
          /\ text[a + 1] \in UndWords
          /\ text[a + 2] \in JugendpsychWords
    \/ \E a \in DOMAIN text : text[a] \in KeywordWords

classify_hit(title, url) ==
    LET text == Lower(title \o url)
    IN  IF STRICT_KJPP_RE(text) THEN "KJPP"
        ELSE IF KEYWORDS_RE(text) THEN "RELATED"
        ELSE "OTHER"

\* make_id with the title left out of the hashed string
make_id_NoTitle(url, title) == url \o <<"|">>

\* the string make_id hashes
make_id(url, title) == url \o <<"|">> \o title

\* the key of the parsers' deduplication
DedupKey(item) == item.href \o <<"|">> \o Prefix(item.title, KEY_LEN)

RECURSIVE Deduplicate(_)
\* for item in all_items: keep it unless its key was seen
Deduplicate(items) ==
    IF items = <<>> THEN <<>>
    ELSE LET n == Len(items)
             front == Deduplicate(SubSeq(items, 1, n - 1))
         IN  IF \E m \in 1..(n - 1) : DedupKey(items[m]) = DedupKey(items[n])
             THEN front
             ELSE Append(front, items[n])

\* 0 if label == "KJPP" else 1
Prio(label) == IF label = "KJPP" THEN 0 ELSE 1

\* the (prio, line) tuple run_once appends for a classified candidate
Item(c) ==
    [prio |-> Prio(c.cls),
     line |-> [label |-> c.cls, title |-> c.title, href |-> c.href]]

RECURSIVE InsertByPrio(_, _)
\* insert e behind every element whose priority is not greater
InsertByPrio(s, e) ==
    IF s = <<>> THEN <<e>>
    ELSE IF e.prio < Head(s).prio THEN <<e>> \o s
    ELSE <<Head(s)>> \o InsertByPrio(Tail(s), e)

\* the sort left out
SortByPrio_Unsorted(s) == s

RECURSIVE SortByPrio(_)
\* list.sort(key=lambda x: x[0]): a stable sort on the priority
SortByPrio(s) ==
    IF s = <<>> THEN <<>>
    ELSE InsertByPrio(SortByPrio(SubSeq(s, 1, Len(s) - 1)), s[Len(s)])

\* [ln for _, ln in items]
Lines(s) == [n \in DOMAIN s |-> s[n].line]

\* the non-blank, non-comment lines of job_urls.txt
ReadUrls(lines) == SelectSeq(lines, LAMBDA u : u # <<>> /\ Head(u) # "#")

\* "and" in place of "or" in the credential check
CredsOk_Either(token, chat) == token # "" \/ chat # ""

\* if not TG_TOKEN or not TG_CHAT: raise SystemExit
CredsOk(token, chat) == token # "" /\ chat # ""

\* while current_url and pages_scanned < max_pages
LoopCond(url, scanned, bound) == url # NoUrl /\ scanned < bound

\* the comparison with the current URL left out
FollowNext_NoCompare(nxt, cur) == nxt # NoUrl

\* if next_url and next_url != current_url
FollowNext(nxt, cur) == nxt # NoUrl /\ nxt # cur

\* the membership test left out
IsNew_Always(uid, map) == TRUE

\* if uid not in state
IsNew(uid, map) == uid \notin DOMAIN map

\* 'kvboerse' in url
IsKvboerse(url) == \E n \in DOMAIN url : url[n] \in {"kvboerse"}

\* any(portal in url for portal in ['stellen', 'jobs', 'karriere', 'career'])
IsPortal(url) == \E n \in DOMAIN url : url[n] \in {"stellen", "jobs", "karriere", "career"}

(* -------------------------- find_next_page ---------------------------- *)

\* str(n) for the page numbers of the modelled pagination links
NumWord(n) ==
    CASE n = 0 -> "0" [] n = 1 -> "1" [] n = 2 -> "2" [] n = 3 -> "3" [] n = 4 -> "4"
      [] n = 5 -> "5" [] n = 6 -> "6" [] n = 7 -> "7" [] n = 8 -> "8" [] n = 9 -> "9"
      [] OTHER -> "10"

\* text.isdigit()
IsDigit(text) == text \in {"0", "1", "2", "3", "4", "5", "6", "7", "8", "9", "10", "02"}

\* int(text)
ParseInt(text) ==
    CASE text = "0" -> 0 [] text = "1" -> 1 [] text = "2" -> 2 [] text = "3" -> 3
      [] text = "4" -> 4 [] text = "5" -> 5 [] text = "6" -> 6 [] text = "7" -> 7
      [] text = "8" -> 8 [] text = "9" -> 9 [] text = "02" -> 2 [] OTHER -> 10

\* the href of the pagination link to page n: a relative query reference
PageHref(n) == <<"?page=", NumWord(n)>>

\* the part of a URL in front of its query
StripQuery(url) ==
    IF \E n \in DOMAIN url : url[n] = "?page="
    THEN SubSeq(url, 1, (CHOOSE n \in DOMAIN url :
                           /\ url[n] = "?page="
                           /\ \A m \in 1..(n - 1) : url[m] # "?page=") - 1)
    ELSE url

\* urllib.parse.urljoin for an empty reference, a query reference and an
\* absolute reference
urljoin(base, href) ==
    IF href = <<>> THEN base
    ELSE IF Head(href) = "?page=" THEN StripQuery(base) \o href
    ELSE href

\* the links soup.select('.pagination a, .pager a') can return
PaginationLinks ==
    {[text |-> NumWord(n), href |-> PageHref(n)] : n \in 0..MaxPageNum}
        \cup {[text |-> "02", href |-> PageHref(2)], [text |-> "Weiter", href |-> <<>>]}

\* for each of the next_selectors, the href of its first match (<<>> when it
\* matches nothing or its match has no href)
SelectorMatches ==
    {[k \in 1..NEXT_SELECTORS |-> <<>>],
     [k \in 1..NEXT_SELECTORS |-> IF k = 5 THEN PageHref(2) ELSE <<>>],
     [k \in 1..NEXT_SELECTORS |-> IF k = 1 THEN PageHref(3)
                                   ELSE IF k = 5 THEN PageHref(2) ELSE <<>>]}

\* the pages find_next_page is applied to
Soups ==
    {[sel |-> m, links |-> l] :
        m \in SelectorMatches,
        l \in UNION {[1..n -> PaginationLinks] : n \in 0..MaxLinks}}

\* the URLs of the pages find_next_page is applied to
SoupUrls == {KV_URL, KV_URL \o PageHref(1)}

RECURSIVE NextBySelector(_, _, _)
\* for selector in next_selectors: return the first match that has an href
NextBySelector(sel, k, url) ==
    IF k > NEXT_SELECTORS THEN NoUrl
    ELSE IF sel[k] # <<>> THEN urljoin(url, sel[k])
    ELSE NextBySelector(sel, k + 1, url)

RECURSIVE NumericScan(_, _, _, _)
\* for link in page_links, with current_page <<>> for None
NumericScan(links, n, current_page, url) ==
    IF n > Len(links) THEN NoUrl
    ELSE IF ~IsDigit(links[n].text) THEN NumericScan(links, n + 1, current_page, url)
    ELSE LET page_num == ParseInt(links[n].text)
             current == IF current_page = <<>> \/ page_num > current_page[1]
                        THEN <<page_num>>
                        ELSE current_page
         IN  IF page_num = current[1] + 1
             THEN urljoin(url, links[n].href)
             ELSE NumericScan(links, n + 1, current, url)

find_next_page(soup_, url) ==
    IF NextBySelector(soup_.sel, 1, url) # NoUrl
    THEN NextBySelector(soup_.sel, 1, url)
    ELSE NumericScan(soup_.links, 1, <<>>, url)

(* ------------------------------- state -------------------------------- *)

VARIABLES
    run,              \* number of the current run of the script
    pc,               \* position in run_once / __main__
    TG_TOKEN,         \* environment: TELEGRAM_BOT_TOKEN ("" when unset)
    TG_CHAT,          \* environment: TELEGRAM_CHAT_ID ("" when unset)
    urls_file,        \* job_urls.txt: [exists, lines]
    disk,             \* state.json: [kind, isdict, map]
    last_results,     \* what the run wrote to last_results.txt: [exists, lines]
    last_new_results, \* what the run wrote to last_new_results.txt: [exists, lines]
    chat,             \* the lines the run delivered to the Telegram chat
    urls,             \* run_once: urls
    i,                \* run_once: index of the source being processed
    state,            \* run_once: state, [isdict, map]
    new_items,        \* run_once: new_items
    all_items,        \* run_once: all_items
    candidates,       \* run_once: candidates of the current source
    filtered,         \* run_once: filtered
    j,                \* run_once: index in the "check for new items" loop
    current_url,      \* crawler: current_url
    pages_scanned,    \* crawler: pages_scanned
    crawl_items,      \* crawler: all_items of the parser
    next_url,         \* crawler: next_url
    max_pages,        \* crawler: max_pages
    broke,            \* crawler: the loop was left through a break
    fetches,          \* crawler: requests.get calls issued by the current crawl
    now,              \* time.time(), in a unit that separates two runs
    io,               \* the kinds of I/O the current run has performed
    failed,           \* the sources of the current run with a failed fetch
    exit_code,        \* exit status of the process
    exit_reason,      \* "none", "config" (SystemExit) or "exception"
    state_cands,      \* the (href, title) pairs behind the keys of state
    disk_cands,       \* the (href, title) pairs behind the keys of state.json
    loaded_cands,     \* the (href, title) pairs load_state returned
    soup,             \* find_next_page: the page, [sel, links]
    soup_url,         \* find_next_page: current_url
    fnp_result,       \* find_next_page: the value returned
    fnp_pc            \* find_next_page: "idle", "call" or "returned"

env == <<TG_TOKEN, TG_CHAT, urls_file>>
files == <<last_results, last_new_results>>
crawler == <<current_url, pages_scanned, crawl_items, next_url, max_pages, broke, fetches>>
lists == <<new_items, all_items>>
ghosts == <<state_cands, disk_cands, loaded_cands>>
exits == <<exit_code, exit_reason>>
fnp == <<soup, soup_url, fnp_result, fnp_pc>>

vars == <<run, pc, env, disk, files, chat, urls, i, state, lists, candidates,
          filtered, j, crawler, now, io, failed, exits, ghosts, fnp>>

NoFile == [exists |-> FALSE, lines |-> <<>>]

DiskStates ==
    {[kind |-> "absent", isdict |-> TRUE, map |-> EmptyMap],
     [kind |-> "corrupt", isdict |-> TRUE, map |-> EmptyMap],
     [kind |-> "json", isdict |-> FALSE, map |-> EmptyMap]}

Corrupt == [kind |-> "corrupt", isdict |-> TRUE, map |-> EmptyMap]

\* json.loads of state.json when it exists and parses, {} otherwise
load_state(d) ==
    IF d.kind = "json" THEN [isdict |-> d.isdict, map |-> d.map]
    ELSE [isdict |-> TRUE, map |-> EmptyMap]

RunInit ==
    /\ run = 1
    /\ pc = "start"
    /\ TG_TOKEN \in {"", "token"}
    /\ TG_CHAT \in {"", "chat"}
    /\ urls_file \in {NoFile} \cup {[exists |-> TRUE, lines |-> f] : f \in UrlFiles}
    /\ disk \in DiskStates
    /\ last_results = NoFile
    /\ last_new_results = NoFile
    /\ chat = {}
    /\ urls = <<>>
    /\ i = 1
    /\ state = [isdict |-> TRUE, map |-> EmptyMap]
    /\ new_items = <<>>
    /\ all_items = <<>>
    /\ candidates = <<>>
    /\ filtered = <<>>
    /\ j = 1
    /\ current_url = NoUrl
    /\ pages_scanned = 0
    /\ crawl_items = <<>>
    /\ next_url = NoUrl
    /\ max_pages = 0
    /\ broke = FALSE
    /\ fetches = 0
    /\ now = 1
    /\ io = {}
    /\ failed = {}
    /\ exit_code = 0
    /\ exit_reason = "none"
    /\ state_cands = {}
    /\ disk_cands = {}
    /\ loaded_cands = {}

\* no call of find_next_page is under way
NoSoup == [sel |-> [k \in 1..NEXT_SELECTORS |-> <<>>], links |-> <<>>]

Init ==
    /\ RunInit
    /\ soup = NoSoup
    /\ soup_url = NoUrl
    /\ fnp_result = NoUrl
    /\ fnp_pc = "idle"

(* ------------------------------ run_once ------------------------------ *)

\* the pre-flight checks, the reading of the URL list and load_state()
Preflight ==
    /\ pc = "start"
    /\ IF ~CredsOk(TG_TOKEN, TG_CHAT) \/ ~urls_file.exists
       THEN /\ pc' = "exit"
            /\ exit_code' = 1
            /\ exit_reason' = "config"
            /\ UNCHANGED <<urls, state, lists, i, io, loaded_cands, state_cands>>
       ELSE /\ urls' = ReadUrls(urls_file.lines)
            /\ state' = load_state(disk)
            /\ loaded_cands' = IF disk.kind = "json" THEN disk_cands ELSE {}
            /\ state_cands' = loaded_cands'
            /\ new_items' = <<>>
            /\ all_items' = <<>>
            /\ i' = 1
            /\ io' = io \cup {"load_state"}
            /\ pc' = "loop"
            /\ UNCHANGED exits
    /\ UNCHANGED <<fnp, run, env, disk, files, chat, candidates, filtered, j, crawler,
                   now, failed, disk_cands>>

\* for i, url in enumerate(urls, 1): choose the parser by the shape of the URL
NextSource ==
    /\ pc = "loop"
    /\ i <= Len(urls)
    /\ IF IsKvboerse(urls[i]) \/ IsPortal(urls[i])
       THEN /\ max_pages' = IF IsKvboerse(urls[i]) THEN MAX_PAGES ELSE GENERIC_MAX_PAGES
            /\ current_url' = urls[i]
            /\ pages_scanned' = 0
            /\ crawl_items' = <<>>
            /\ next_url' = NoUrl
            /\ broke' = FALSE
            /\ fetches' = 0
            /\ pc' = "crawl"
       ELSE /\ pc' = "content"
            /\ UNCHANGED crawler
    /\ UNCHANGED <<fnp, run, env, disk, files, chat, urls, i, state, lists, candidates,
                   filtered, j, now, io, failed, exits, ghosts>>

\* one iteration of the while loop of parse_kvboerse_search / parse_generic_portal
CrawlPage ==
    /\ pc = "crawl"
    /\ LoopCond(current_url, pages_scanned, max_pages)
    /\ pages_scanned' = pages_scanned + 1
    /\ fetches' = fetches + 1
    /\ io' = io \cup {"http"}
    /\ \/ \* requests.get / raise_for_status raises: except ... break
          /\ failed' = failed \cup {urls[i]}
          /\ broke' = TRUE
          /\ pc' = "dedupe"
          /\ UNCHANGED <<current_url, crawl_items, next_url>>
       \/ \E items \in PageItemLists, nxt \in {NoUrl} \cup PagesOf(urls[i]) :
             /\ Len(crawl_items) + Len(items) <= MaxItems
             /\ crawl_items' = crawl_items \o items
             /\ next_url' = nxt
             /\ IF FollowNext(nxt, current_url)
                THEN /\ current_url' = nxt
                     /\ UNCHANGED <<broke, pc>>
                ELSE /\ broke' = TRUE
                     /\ pc' = "dedupe"
                     /\ UNCHANGED current_url
             /\ UNCHANGED failed
    /\ UNCHANGED <<fnp, run, env, disk, files, chat, urls, i, state, lists, candidates,
                   filtered, j, max_pages, now, exits, ghosts>>

\* the while condition is false: the page bound is reached
CrawlExit ==
    /\ pc = "crawl"
    /\ ~LoopCond(current_url, pages_scanned, max_pages)
    /\ pc' = "dedupe"
    /\ UNCHANGED <<fnp, run, env, disk, files, chat, urls, i, state, lists, candidates,
                   filtered, j, crawler, now, io, failed, exits, ghosts>>

\* the "Deduplicate" block of the two crawlers and their return (the locals
\* of the parser end with the call)
CrawlReturn ==
    /\ pc = "dedupe"
    /\ candidates' = Deduplicate(crawl_items)
    /\ current_url' = NoUrl
    /\ pages_scanned' = 0
    /\ crawl_items' = <<>>
    /\ next_url' = NoUrl
    /\ max_pages' = 0
    /\ broke' = FALSE
    /\ fetches' = 0
    /\ pc' = "classify"
    /\ UNCHANGED <<fnp, run, env, disk, files, chat, urls, i, state, lists,
                   filtered, j, now, io, failed, exits, ghosts>>

\* parse_content_page: one fetch; every job-like heading or link is an item
ContentPage ==
    /\ pc = "content"
    /\ io' = io \cup {"http"}
    /\ \/ \* except Exception: return []
          /\ candidates' = <<>>
          /\ failed' = failed \cup {urls[i]}
       \/ \E items \in PageItemLists :
             /\ candidates' = items
             /\ UNCHANGED failed
    /\ pc' = "classify"
    /\ UNCHANGED <<fnp, run, env, disk, files, chat, urls, i, state, lists,
                   filtered, j, crawler, now, exits, ghosts>>

\* "Classify and process candidates" and "Build lists"
Classify ==
    /\ pc = "classify"
    /\ LET classified == [n \in DOMAIN candidates |->
                            [href |-> candidates[n].href,
                             title |-> candidates[n].title,
                             cls |-> classify_hit(candidates[n].title, candidates[n].href)]]
           kept == SelectSeq(classified, LAMBDA c : c.cls \in {"KJPP", "RELATED"})
       IN  /\ filtered' = kept
           /\ all_items' = all_items \o [n \in DOMAIN kept |-> Item(kept[n])]
    /\ j' = 1
    /\ pc' = "novelty"
    /\ UNCHANGED <<fnp, run, env, disk, files, chat, urls, i, state, new_items, candidates,
                   crawler, now, io, failed, exits, ghosts>>

\* one iteration of "Check for new items"
NoveltyStep ==
    /\ pc = "novelty"
    /\ j <= Len(filtered)
    /\ LET c == filtered[j]
           uid == make_id(c.href, c.title)
       IN  IF ~state.isdict
           THEN \* state is not a mapping: TypeError, caught in __main__, exit(1)
                /\ pc' = "exit"
                /\ exit_code' = 1
                /\ exit_reason' = "exception"
                /\ UNCHANGED <<state, new_items, j, state_cands>>
           ELSE /\ IF IsNew(uid, state.map)
                   THEN /\ state' = [state EXCEPT !.map =
                                       [u \in DOMAIN state.map \cup {uid} |->
                                           IF u = uid THEN now ELSE state.map[u]]]
                        /\ new_items' = Append(new_items, Item(c))
                        /\ state_cands' = state_cands \cup {Cand(c.href, c.title)}
                   ELSE UNCHANGED <<state, new_items, state_cands>>
                /\ j' = j + 1
                /\ UNCHANGED <<pc, exits>>
    /\ UNCHANGED <<fnp, run, env, disk, files, chat, urls, i, all_items, candidates, filtered,
                   crawler, now, io, failed, disk_cands, loaded_cands>>

\* time.sleep(SLEEP_BETWEEN) and the next source (candidates and filtered are
\* not read again before they are assigned)
Sleep ==
    /\ pc = "novelty"
    /\ j > Len(filtered)
    /\ i' = i + 1
    /\ candidates' = <<>>
    /\ filtered' = <<>>
    /\ j' = 1
    /\ pc' = "loop"
    /\ UNCHANGED <<fnp, run, env, disk, files, chat, urls, state, lists,
                   crawler, now, io, failed, exits, ghosts>>

\* save_state(state): a failed write is logged and leaves the file as it was or cut
SaveState ==
    /\ pc = "loop"
    /\ i > Len(urls)
    /\ io' = io \cup {"save_state"}
    /\ \/ /\ disk' = [kind |-> "json", isdict |-> state.isdict, map |-> state.map]
          /\ disk_cands' = state_cands
       \/ /\ disk' = disk
          /\ disk_cands' = disk_cands
       \/ /\ disk' = Corrupt
          /\ disk_cands' = {}
    /\ pc' = "export"
    /\ UNCHANGED <<fnp, run, env, files, chat, urls, i, state, lists, candidates, filtered, j,
                   crawler, now, failed, exits, state_cands, loaded_cands>>

\* the two sorts and the two write_txt calls (a failed write is logged)
Export ==
    /\ pc = "export"
    /\ all_items' = SortByPrio(all_items)
    /\ new_items' = SortByPrio(new_items)
    /\ \E ok1, ok2 \in BOOLEAN :
          /\ last_results' = IF ok1 THEN [exists |-> TRUE, lines |-> Lines(all_items')]
                             ELSE last_results
          /\ last_new_results' = IF ok2 THEN [exists |-> TRUE, lines |-> Lines(new_items')]
                                 ELSE last_new_results
    /\ io' = io \cup {"write_txt"}
    /\ pc' = "notify"
    /\ UNCHANGED <<fnp, run, env, disk, chat, urls, i, state, candidates, filtered, j,
                   crawler, now, failed, exits, ghosts>>

\* the message body of the notification: the two sections
Body(items) ==
    [kjpp |-> Lines(SelectSeq(items, LAMBDA e : e.prio = 0)),
     related |-> IF INCLUDE_RELATED
                 THEN Lines(SelectSeq(items, LAMBDA e : e.prio = 1))
                 ELSE <<>>]

\* "Send Telegram notification" and the return of run_once
Notify ==
    /\ pc = "notify"
    /\ IF new_items # <<>>
       THEN /\ io' = io \cup {"tgsend"}
            /\ \/ \* the POST succeeds
                  chat' = chat \cup Range(Body(new_items).kjpp)
                               \cup Range(Body(new_items).related)
               \/ \* the POST fails: "Telegram send error" is printed
                  chat' = chat
       ELSE UNCHANGED <<io, chat>>
    /\ pc' = "done"
    /\ exit_code' = 0
    /\ UNCHANGED <<fnp, run, env, disk, files, urls, i, state, lists, candidates, filtered, j,
                   crawler, now, failed, exit_reason, ghosts>>

\* the script is started again in the same working directory and environment
NewRun ==
    /\ pc \in {"done", "exit"}
    /\ run < MaxRuns
    /\ run' = run + 1
    /\ pc' = "start"
    /\ urls' = <<>>
    /\ i' = 1
    /\ state' = [isdict |-> TRUE, map |-> EmptyMap]
    /\ new_items' = <<>>
    /\ all_items' = <<>>
    /\ candidates' = <<>>
    /\ filtered' = <<>>
    /\ j' = 1
    /\ current_url' = NoUrl
    /\ pages_scanned' = 0
    /\ crawl_items' = <<>>
    /\ next_url' = NoUrl
    /\ max_pages' = 0
    /\ broke' = FALSE
    /\ fetches' = 0
    /\ now' = now + 1
    /\ io' = {}
    /\ failed' = {}
    /\ exit_code' = 0
    /\ exit_reason' = "none"
    /\ state_cands' = {}
    /\ loaded_cands' = {}
    /\ last_results' = NoFile
    /\ last_new_results' = NoFile
    /\ chat' = {}
    /\ UNCHANGED <<fnp, env, disk, disk_cands>>

Next ==
    \/ Preflight
    \/ NextSource
    \/ CrawlPage
    \/ CrawlExit
    \/ CrawlReturn
    \/ ContentPage
    \/ Classify
    \/ NoveltyStep
    \/ Sleep
    \/ SaveState
    \/ Export
    \/ Notify
    \/ NewRun

Spec == Init /\ [][Next]_vars

(* ---------------- find_next_page applied to bounded pages -------------- *)

NextPageInit ==
    /\ RunInit
    /\ TG_TOKEN = "" /\ TG_CHAT = "" /\ ~urls_file.exists /\ disk.kind = "absent"
    /\ soup \in Soups
    /\ soup_url \in SoupUrls
    /\ fnp_result = NoUrl
    /\ fnp_pc = "call"

\* one call of find_next_page(soup, current_url)
FindNextPage ==
    /\ fnp_pc = "call"
    /\ fnp_result' = find_next_page(soup, soup_url)
    /\ fnp_pc' = "returned"
    /\ UNCHANGED <<soup, soup_url, run, pc, env, disk, files, chat, urls, i, state, lists,
                   candidates, filtered, j, crawler, now, io, failed, exits, ghosts>>

NextPageNext == FindNextPage

NextPageSpec == NextPageInit /\ [][NextPageNext]_vars

TypeOK ==
    /\ run \in 1..MaxRuns
    /\ pc \in {"start", "loop", "crawl", "dedupe", "content", "classify", "novelty",
               "export", "notify", "done", "exit"}
    /\ exit_code \in {0, 1}

(* ---------------------------- properties ------------------------------ *)

\* C1: a crawl never issues more than max_pages fetches; a fetch whose page
\* has no next link, or a next link equal to the URL just fetched, is the last
\* fetch of the crawl; the loop is left early only after such a page or a
\* failed fetch, and otherwise the crawl ends after exactly max_pages fetches
\* (10 for a KVBOERSE source).  Every step of the loop is a fetch, so the
\* bound on the fetches bounds the loop.
C1_CrawlerBounded ==
    [][/\ fetches' <= max_pages'
       /\ (pc = "crawl" /\ fetches' = fetches + 1) =>
             /\ fetches' = pages_scanned'
             /\ (next_url' = NoUrl \/ next_url' = current_url) => pc' = "dedupe"
             /\ broke' => \/ failed' # failed
                          \/ next_url' = NoUrl
                          \/ next_url' = current_url
       /\ (pc = "crawl" /\ pc' = "dedupe" /\ ~broke') =>
             /\ fetches' = max_pages'
             /\ (\E n \in DOMAIN urls[i] : urls[i][n] = "kvboerse") => fetches' = 10
      ]_vars

\* a KVBOERSE crawl that ran into the page bound after ten fetches
C1_Witness == pc = "dedupe" /\ ~broke /\ fetches = 10 /\ max_pages = 10

\* C2: in a run that loaded the state an earlier run persisted, a candidate
\* whose (href, title) was recorded is not appended to the new list, and a
\* physician or related candidate whose href was recorded with another title
\* only is in the new list once it has been checked.
C2_RoundTripNovelty ==
    [][(pc = "novelty" /\ j <= Len(filtered) /\ state.isdict) =>
          LET c == Cand(filtered[j].href, filtered[j].title)
          IN  /\ c \in loaded_cands => new_items' = new_items
              /\ (/\ c \notin loaded_cands
                  /\ \E d \in loaded_cands : d.href = c.href /\ d.title # c.title)
                 => \E n \in DOMAIN new_items' :
                       /\ new_items'[n].line.href = c.href
                       /\ new_items'[n].line.title = c.title
      ]_vars

\* the second run has met the recorded physician posting again without
\* reporting it, and has reported the same href under its changed title
C2_Witness ==
    /\ run = 2
    /\ pc = "novelty"
    /\ loaded_cands = {Cand(H1, T_FACH)}
    /\ j = 3
    /\ filtered[1].title = T_FACH
    /\ filtered[2].title = T_REL
    /\ Len(new_items) = 1
    /\ new_items[1].line.title = T_REL
    /\ new_items[1].line.href = H1

\* words that contain the noise term "niederlassung" of the exclusion patterns
DenyWords == {"niederlassung", "niederlassungsberatung"}

MatchesDenylist(title, url) ==
    \E n \in DOMAIN Lower(title \o url) : Lower(title \o url)[n] \in DenyWords

\* C3: a candidate whose text matches an exclusion pattern is never labelled
\* physician or related role, never listed in a report and never recorded in
\* the novelty state.
C3_ExclusionDominance ==
    /\ \A n \in DOMAIN filtered : ~MatchesDenylist(filtered[n].title, filtered[n].href)
    /\ \A n \in DOMAIN all_items :
          ~MatchesDenylist(all_items[n].line.title, all_items[n].line.href)
    /\ \A c \in state_cands : ~MatchesDenylist(c.title, c.href)

\* the warning lines of priority 2 that a list holds for one source
WarningLines(items, url) ==
    {n \in DOMAIN items : items[n].prio = 2 /\ items[n].line.href = url}

\* C4: at the end of a run both lists hold exactly one priority-2 warning line
\* for every source whose fetch failed.
C4_FailureVisibility ==
    pc = "done" =>
        \A u \in failed :
            /\ Cardinality(WarningLines(all_items, u)) = 1
            /\ Cardinality(WarningLines(new_items, u)) = 1

SortedByPrio(s) == \A a, b \in DOMAIN s : a < b => s[a].prio <= s[b].prio

Tier(s, p) == SelectSeq(s, LAMBDA e : e.prio = p)

\* C5: the export step leaves both lists in ascending priority with the
\* lines of one priority in the order in which they were appended, and writes
\* the lines in that order; the lines of a later source are appended behind
\* the lines of the earlier sources.
C5_ReportOrdering ==
    [][/\ pc = "export" =>
             /\ SortedByPrio(all_items') /\ SortedByPrio(new_items')
             /\ \A p \in 0..2 : /\ Tier(all_items', p) = Tier(all_items, p)
                                /\ Tier(new_items', p) = Tier(new_items, p)
             /\ Len(all_items') = Len(all_items) /\ Len(new_items') = Len(new_items)
             /\ last_results'.exists => last_results'.lines = Lines(all_items')
             /\ last_new_results'.exists => last_new_results'.lines = Lines(new_items')
       /\ pc \in {"classify", "novelty"} =>
             /\ Len(all_items') >= Len(all_items)
             /\ SubSeq(all_items', 1, Len(all_items)) = all_items
             /\ Len(new_items') >= Len(new_items)
             /\ SubSeq(new_items', 1, Len(new_items)) = new_items
      ]_vars

\* both export files are written; the list of all candidates holds two
\* different physician lines ahead of a related line
C5_Witness ==
    /\ pc = "notify"
    /\ last_results.exists /\ last_new_results.exists
    /\ Len(all_items) = 3
    /\ all_items[1].prio = 0 /\ all_items[2].prio = 0 /\ all_items[3].prio = 1
    /\ all_items[1].line.title = T_NOISE /\ all_items[2].line.title = T_FACH
    /\ Len(new_items) = 3

Ids(items) == [n \in DOMAIN items |-> make_id(items[n].line.href, items[n].line.title)]

\* C6: within a run the mapping keeps every identity with its timestamp, gains
\* an identity only for the candidate being checked, which is a physician or
\* related role, and no identity is in the new list twice; a mapping written
\* over a persisted mapping contains it.
C6_StateMonotonic ==
    [][(run' = run /\ pc # "start") =>
          /\ \A u \in DOMAIN state.map :
                u \in DOMAIN state'.map /\ state'.map[u] = state.map[u]
          /\ DOMAIN state'.map # DOMAIN state.map =>
                /\ pc = "novelty"
                /\ filtered[j].cls \in {"KJPP", "RELATED"}
                /\ classify_hit(filtered[j].title, filtered[j].href) = filtered[j].cls
                /\ DOMAIN state'.map =
                      DOMAIN state.map \cup {make_id(filtered[j].href, filtered[j].title)}
          /\ \A a, b \in DOMAIN new_items' : a # b => Ids(new_items')[a] # Ids(new_items')[b]
          /\ (disk.kind = "json" /\ disk'.kind = "json" /\ disk.isdict) =>
                /\ disk'.isdict
                /\ \A u \in DOMAIN disk.map :
                      u \in DOMAIN disk'.map /\ disk'.map[u] = disk.map[u]
      ]_vars

\* the second run has persisted a mapping that holds an identity of the first
\* run with its timestamp next to an identity of its own
C6_Witness ==
    /\ run = 2
    /\ pc = "export"
    /\ disk.kind = "json" /\ disk.isdict
    /\ \E u, v \in DOMAIN disk.map : disk.map[u] = 1 /\ disk.map[v] = 2
    /\ Len(filtered) = 0
    /\ Len(all_items) > Len(new_items)
    /\ Len(new_items) > 0

\* C7: a run that ends with a non-zero status for another reason than a
\* configuration error has persisted the novelty state before.
C7_PersistBeforeFatalExit ==
    (pc = "exit" /\ exit_reason # "config") => "save_state" \in io

\* C8: with a missing credential or a missing URL list the run does nothing
\* but end with status 1: no HTTP request, no load or write of the novelty
\* state, no export file.
C8_PreflightAbort ==
    (TG_TOKEN = "" \/ TG_CHAT = "" \/ ~urls_file.exists) =>
        /\ pc \in {"start", "exit"}
        /\ io = {}
        /\ last_results = NoFile /\ last_new_results = NoFile
        /\ chat = {}
        /\ pc = "exit" => (exit_code = 1 /\ exit_reason = "config")

\* the run was aborted for a missing chat id although the URL list exists
C8_Witness ==
    /\ pc = "exit"
    /\ exit_reason = "config"
    /\ exit_code = 1
    /\ TG_TOKEN # "" /\ TG_CHAT = ""
    /\ urls_file.exists

\* C9: in a run with new candidates the novelty state is persisted only after
\* the notification was sent.
C9_NotifyBeforePersist ==
    ("save_state" \in io /\ new_items # <<>>) => "tgsend" \in io

\* C10: the candidates handed to classification hold no two entries with the
\* same (href, title[:100]) key, and neither does the part of the list of all
\* candidates that comes from one source.
C10_DedupBeforeClassification ==
    /\ pc = "classify" =>
          \A a, b \in DOMAIN candidates :
              a # b => DedupKey(candidates[a]) # DedupKey(candidates[b])
    /\ pc = "novelty" =>
          \A a, b \in DOMAIN filtered :
              a # b => DedupKey(filtered[a]) # DedupKey(filtered[b])

\* the numeric links in front of position n
NumbersBefore(links, n) ==
    {ParseInt(links[m].text) : m \in {k \in 1..(n - 1) : IsDigit(links[k].text)}}

\* the link at position n is labelled with the number one greater than the
\* current page detected from the links in front of it
IsNextNumber(links, n) ==
    /\ IsDigit(links[n].text)
    /\ NumbersBefore(links, n) # {}
    /\ \A q \in NumbersBefore(links, n) : q < ParseInt(links[n].text)
    /\ ParseInt(links[n].text) - 1 \in NumbersBefore(links, n)

NoSelectorMatch(sel) == \A k \in DOMAIN sel : sel[k] = <<>>

\* C11: when no next selector matches, find_next_page returns the resolved
\* URL of a numeric link whose number is one greater than the detected
\* current page if the pagination links hold such a link, and no next page
\* otherwise.
C11_NumericNextPage ==
    (fnp_pc = "returned" /\ NoSelectorMatch(soup.sel)) =>
        IF \E n \in DOMAIN soup.links : IsNextNumber(soup.links, n)
        THEN \E n \in DOMAIN soup.links :
                /\ IsNextNumber(soup.links, n)
                /\ fnp_result = urljoin(soup_url, soup.links[n].href)
        ELSE fnp_result = NoUrl

====
